---- MODULE Spec2Model ----
(***************************************************************************)
(* The request/response pipeline of qr-encoder (src/main.pyw):             *)
(* WorkerThread's single-slot mailbox (parameters, guarded by mutex, with  *)
(* semaphore as the wake signal), the worker loop run(), the threads that  *)
(* call set_parameters, and the slots of MainWindow that receive the       *)
(* worker's signals.                                                       *)
(*                                                                         *)
(* A request tuple (text, error, version, mode, scale) is abstracted to    *)
(* [id, ok]: id is the position of its write in the mutex order of         *)
(* set_parameters calls, ok tells whether pyqrcode.create accepts it       *)
(* (it raises ValueError otherwise).  Python's None is the record None.    *)
(* The version element of the tuple is followed separately, from the spin  *)
(* box to get_version, under VersionSpec.                                  *)
(***************************************************************************)
EXTENDS Integers, Sequences, FiniteSets, TLC

\* Bounds of the model.
MaxSubmit == 3          \* set_parameters calls in one behaviour
NumSubmitters == 2      \* threads that call set_parameters

\* Thread identities: the GUI thread is submitter 1, the worker is 0.
GUI == 1
Worker == 0
Free == -1
Submitters == 1..NumSubmitters

None == [id |-> 0, ok |-> FALSE]
Request(i, ok) == [id |-> i, ok |-> ok]

\* Range of MainWindow.version_box (setMinimum, setMaximum).
VersionMin == 0
VersionMax == 40

\* The version element of a request tuple: Python's None, or an integer.
VersionNone == [none |-> TRUE, value |-> 0]
VersionInt(v) == [none |-> FALSE, value |-> v]

VARIABLES
    parameters,   \* WorkerThread.parameters: None or the pending request
    semaphore,    \* QSemaphore.available()
    mutex,        \* holder of WorkerThread.mutex, or Free
    pcW,          \* position of the worker in run()/get_parameters()
    cur,          \* value get_parameters returned to run()
    exc,          \* exception raised in the current iteration, or "none"
    pcS,          \* position of each submitter in set_parameters()
    arg,          \* ok-ness of the tuple each submitter is passing
    calls,        \* set_parameters calls started so far
    written,      \* writes to the slot so far (ids handed out)
    events,       \* queued signal deliveries pending in the GUI event loop
    label,        \* MainWindow.label content
    save_enabled, \* MainWindow.save_action.isEnabled()
    taken,        \* history: every return of get_parameters, with the
                  \* number of writes that preceded it
    encoded,      \* history: ids passed to pyqrcode.create
    emitted,      \* history: every signal emitted by the worker
    delivered,    \* history: every signal delivered to a MainWindow slot
    writes,       \* history: every write to the slot (see WriteEntry)
    coalesced,    \* history: ids written while the request that
                  \* get_parameters last returned was being encoded
    version_box,  \* MainWindow.version_box.value()
    version       \* version element of the tuple request_new_qr_code built

vars == <<parameters, semaphore, mutex, pcW, cur, exc, pcS, arg, calls,
          written, events, label, save_enabled, taken, encoded, emitted,
          delivered, writes, coalesced, version_box, version>>

mailbox == <<parameters, semaphore, mutex>>
workerLocal == <<pcW, cur, exc>>
submitterVars == <<pcS, arg, calls, written>>
guiVars == <<events, label, save_enabled, delivered>>
history == <<taken, encoded, emitted, writes, coalesced>>
inputVars == <<version_box, version>>

Last(s) == s[Len(s)]

\* WorkerThread.__init__, MainWindow.init_thread (worker.start()), init_ui.
Init ==
    /\ parameters = None
    /\ semaphore = 0
    /\ mutex = Free
    /\ pcW = "acquire"
    /\ cur = None
    /\ exc = "none"
    /\ pcS = [s \in Submitters |-> IF s = GUI THEN "startup" ELSE "idle"]
    /\ arg = [s \in Submitters |-> FALSE]
    /\ calls = 0
    /\ written = 0
    /\ events = <<>>
    /\ label = [kind |-> "empty", id |-> 0]
    /\ save_enabled = TRUE
    /\ taken = <<>>
    /\ encoded = <<>>
    /\ emitted = <<>>
    /\ delivered = <<>>
    /\ writes = <<>>
    /\ coalesced = {}
    /\ version_box = VersionMin
    /\ version = VersionNone

----------------------------------------------------------------------------
\* Callers of WorkerThread.set_parameters.

\* Variant of get_version_of without the special case for 0.
get_version_of_NoSentinel(v) == VersionInt(v)

\* MainWindow.get_version, as a function of the spin box value v.
get_version_of(v) == IF v = 0 THEN VersionNone ELSE VersionInt(v)

\* MainWindow.get_version: v = self.version_box.value().
get_version == get_version_of(version_box)

\* MainWindow.__init__: the request_new_qr_code() call that ends construction.
Startup ==
    /\ pcS[GUI] = "startup"
    /\ \E ok \in BOOLEAN : arg' = [arg EXCEPT ![GUI] = ok]
    /\ version' = get_version
    /\ pcS' = [pcS EXCEPT ![GUI] = "lock"]
    /\ calls' = calls + 1
    /\ UNCHANGED <<version_box, mailbox, workerLocal, written, guiVars,
                   history>>

\* MainWindow.request_new_qr_code as a slot of the input widgets (s = GUI),
\* or any other thread calling worker.set_parameters.
request_new_qr_code(s) ==
    /\ pcS[s] = "idle"
    /\ pcS[GUI] # "startup"
    /\ calls < MaxSubmit
    /\ \E ok \in BOOLEAN : arg' = [arg EXCEPT ![s] = ok]
    /\ version' = get_version
    /\ pcS' = [pcS EXCEPT ![s] = "lock"]
    /\ calls' = calls + 1
    /\ UNCHANGED <<version_box, mailbox, workerLocal, written, guiVars,
                   history>>

\* version_box.valueChanged, connected to request_new_qr_code: the user sets
\* the spin box to another value v and the GUI thread runs the slot.
version_box_valueChanged(v) ==
    /\ pcS[GUI] = "idle"
    /\ calls < MaxSubmit
    /\ v # version_box
    /\ version_box' = v
    /\ \E ok \in BOOLEAN : arg' = [arg EXCEPT ![GUI] = ok]
    /\ version' = get_version_of(v)
    /\ pcS' = [pcS EXCEPT ![GUI] = "lock"]
    /\ calls' = calls + 1
    /\ UNCHANGED <<mailbox, workerLocal, written, guiVars, history>>

----------------------------------------------------------------------------
\* WorkerThread.set_parameters, one step per statement.

\* with QMutexLocker(self.mutex):
SetLock(s) ==
    /\ pcS[s] = "lock"
    /\ mutex = Free
    /\ mutex' = s
    /\ pcS' = [pcS EXCEPT ![s] = "write"]
    /\ UNCHANGED <<inputVars, parameters, semaphore, workerLocal, arg, calls,
                   written, guiVars, history>>

\* The worker is between the return of get_parameters with a request and the
\* emit of that request's signal.
Encoding ==
    /\ pcW \in {"unpack", "create", "emit_result", "emit_error"}
    /\ cur # None

\* What the history records of a write: whether the slot was empty just
\* before it, and whether the call went on to release the semaphore (set
\* by SetRelease).
WriteEntry == [wasEmpty |-> parameters = None, released |-> FALSE]

\* Variant of SetWrite that queues behind a pending request instead of
\* replacing it: the slot is written only when it is empty.
SetWrite_KeepPending(s) ==
    /\ pcS[s] = "write"
    /\ parameters' = IF parameters = None
                       THEN Request(written + 1, arg[s])
                       ELSE parameters
    /\ written' = written + 1
    /\ writes' = Append(writes, WriteEntry)
    /\ coalesced' = IF Encoding THEN coalesced \cup {written + 1}
                                ELSE coalesced
    /\ pcS' = [pcS EXCEPT ![s] = "check"]
    /\ UNCHANGED <<inputVars, semaphore, mutex, workerLocal, arg, calls,
                   guiVars, taken, encoded, emitted>>

\* self.parameters = parameters
SetWrite(s) ==
    /\ pcS[s] = "write"
    /\ parameters' = Request(written + 1, arg[s])
    /\ written' = written + 1
    /\ writes' = Append(writes, WriteEntry)
    /\ coalesced' = IF Encoding THEN coalesced \cup {written + 1}
                                ELSE coalesced
    /\ pcS' = [pcS EXCEPT ![s] = "check"]
    /\ UNCHANGED <<inputVars, semaphore, mutex, workerLocal, arg, calls,
                   guiVars, taken, encoded, emitted>>

\* Variants of MustRelease: the test inverted, and no test at all.
MustRelease_Inverted == semaphore # 0
MustRelease_Always == TRUE

\* if self.semaphore.available() == 0:
MustRelease == semaphore = 0

SetCheck(s) ==
    /\ pcS[s] = "check"
    /\ pcS' = [pcS EXCEPT ![s] = IF MustRelease THEN "release" ELSE "unlock"]
    /\ UNCHANGED <<inputVars, mailbox, workerLocal, arg, calls, written,
                   guiVars, history>>

\* self.semaphore.release(1)
SetRelease(s) ==
    /\ pcS[s] = "release"
    /\ semaphore' = semaphore + 1
    /\ writes' = [writes EXCEPT ![Len(writes)].released = TRUE]
    /\ pcS' = [pcS EXCEPT ![s] = "unlock"]
    /\ UNCHANGED <<inputVars, parameters, mutex, workerLocal, arg, calls,
                   written, guiVars, taken, encoded, emitted, coalesced>>

\* leaving the with block
SetUnlock(s) ==
    /\ pcS[s] = "unlock"
    /\ mutex' = Free
    /\ pcS' = [pcS EXCEPT ![s] = "idle"]
    /\ UNCHANGED <<inputVars, parameters, semaphore, workerLocal, arg, calls,
                   written, guiVars, history>>

set_parameters(s) ==
    \/ SetLock(s)
    \/ SetWrite(s)
    \/ SetCheck(s)
    \/ SetRelease(s)
    \/ SetUnlock(s)

----------------------------------------------------------------------------
\* WorkerThread.get_parameters, one step per statement.

\* self.semaphore.acquire(1)
GetAcquire ==
    /\ pcW = "acquire"
    /\ semaphore >= 1
    /\ semaphore' = semaphore - 1
    /\ pcW' = "lock"
    /\ UNCHANGED <<inputVars, parameters, mutex, cur, exc, submitterVars,
                   guiVars, history>>

\* with QMutexLocker(self.mutex):
GetLock ==
    /\ pcW = "lock"
    /\ mutex = Free
    /\ mutex' = Worker
    /\ pcW' = "take"
    /\ UNCHANGED <<inputVars, parameters, semaphore, cur, exc, submitterVars,
                   guiVars, history>>

\* Variant of GetTake that omits self.parameters = None.
GetTake_NoClear ==
    /\ pcW = "take"
    /\ cur' = parameters
    /\ pcW' = "unlock"
    /\ UNCHANGED <<inputVars, mailbox, exc, submitterVars, guiVars, history>>

\* parameters = self.parameters; self.parameters = None
GetTake ==
    /\ pcW = "take"
    /\ cur' = parameters
    /\ parameters' = None
    /\ pcW' = "unlock"
    /\ UNCHANGED <<inputVars, semaphore, mutex, exc, submitterVars, guiVars,
                   history>>

\* Variant of GetUnlock that returns without unlocking the mutex.
GetUnlock_KeepsMutex ==
    /\ pcW = "unlock"
    /\ pcW' = "unpack"
    /\ taken' = Append(taken, [id |-> cur.id, ok |-> cur.ok,
                                written |-> written])
    /\ coalesced' = {}
    /\ UNCHANGED <<inputVars, mailbox, cur, exc, submitterVars, guiVars,
                   encoded, emitted, writes>>

\* return parameters (leaving the with block)
GetUnlock ==
    /\ pcW = "unlock"
    /\ mutex' = Free
    /\ pcW' = "unpack"
    /\ taken' = Append(taken, [id |-> cur.id, ok |-> cur.ok,
                                written |-> written])
    /\ coalesced' = {}
    /\ UNCHANGED <<inputVars, parameters, semaphore, cur, exc, submitterVars,
                   guiVars, encoded, emitted, writes>>

get_parameters ==
    \/ GetAcquire
    \/ GetLock
    \/ GetTake
    \/ GetUnlock

----------------------------------------------------------------------------
\* WorkerThread.run: the body of the while True loop.

\* Variants of Handles: a loop body without try/except, and a bare except.
Handles_Nothing(e) == FALSE
Handles_All(e) == TRUE

\* except ValueError as e: the handler the try block has.
Handles(e) == e = "ValueError"

\* Where control goes when exception e is raised inside the try block: to the
\* handler, or out of run().  An exception that leaves run() ends the worker
\* thread ("dead"): the loop never resumes and no signal is emitted again.
PcAfterRaise(e) == IF Handles(e) THEN "emit_error" ELSE "dead"

\* text, error, version, mode, scale = <returned value>
\* Unpacking None raises TypeError.
RunUnpack ==
    /\ pcW = "unpack"
    /\ IF cur = None
         THEN /\ exc' = "TypeError"
              /\ pcW' = PcAfterRaise("TypeError")
         ELSE /\ exc' = "none"
              /\ pcW' = "create"
    /\ UNCHANGED <<inputVars, mailbox, cur, submitterVars, guiVars, history>>

\* qr = pyqrcode.create(text, error, version, mode); qr.png(...);
\* QImage.fromData(...).  create raises ValueError on a request it rejects.
RunCreate ==
    /\ pcW = "create"
    /\ encoded' = Append(encoded, cur.id)
    /\ IF cur.ok
         THEN /\ exc' = "none"
              /\ pcW' = "emit_result"
         ELSE /\ exc' = "ValueError"
              /\ pcW' = PcAfterRaise("ValueError")
    /\ UNCHANGED <<inputVars, mailbox, cur, submitterVars, guiVars, taken,
                   emitted, writes, coalesced>>

Signal(kind, i) == [kind |-> kind, id |-> i]

\* self.resultReady.emit(image): queued to the GUI thread's event loop.
RunEmitResult ==
    /\ pcW = "emit_result"
    /\ emitted' = Append(emitted, Signal("resultReady", cur.id))
    /\ events' = Append(events, Signal("resultReady", cur.id))
    /\ pcW' = "acquire"
    /\ cur' = None
    /\ UNCHANGED <<inputVars, mailbox, exc, submitterVars, label, save_enabled,
                   delivered, taken, encoded, writes, coalesced>>

\* self.errorOccurred.emit(str(e)) in the except clause.
RunEmitError ==
    /\ pcW = "emit_error"
    /\ emitted' = Append(emitted, Signal("errorOccurred", cur.id))
    /\ events' = Append(events, Signal("errorOccurred", cur.id))
    /\ pcW' = "acquire"
    /\ cur' = None
    /\ exc' = "none"
    /\ UNCHANGED <<inputVars, mailbox, submitterVars, label, save_enabled,
                   delivered, taken, encoded, writes, coalesced>>

run ==
    \/ get_parameters
    \/ RunUnpack
    \/ RunCreate
    \/ RunEmitResult
    \/ RunEmitError

----------------------------------------------------------------------------
\* MainWindow slots connected to the worker's signals.  They run in the GUI
\* thread's event loop, one queued delivery at a time, never while the GUI
\* thread is inside set_parameters.

\* MainWindow.draw_qr_code
draw_qr_code ==
    /\ pcS[GUI] = "idle"
    /\ events # <<>>
    /\ Head(events).kind = "resultReady"
    /\ label' = [kind |-> "pixmap", id |-> Head(events).id]
    /\ save_enabled' = TRUE
    /\ delivered' = Append(delivered, Head(events))
    /\ events' = Tail(events)
    /\ UNCHANGED <<inputVars, mailbox, workerLocal, submitterVars, history>>

\* Variant of print_error_message that omits save_action.setEnabled(False).
print_error_message_KeepsSave ==
    /\ pcS[GUI] = "idle"
    /\ events # <<>>
    /\ Head(events).kind = "errorOccurred"
    /\ label' = [kind |-> "text", id |-> Head(events).id]
    /\ delivered' = Append(delivered, Head(events))
    /\ events' = Tail(events)
    /\ UNCHANGED <<inputVars, mailbox, workerLocal, submitterVars, save_enabled,
                   history>>

\* MainWindow.print_error_message
print_error_message ==
    /\ pcS[GUI] = "idle"
    /\ events # <<>>
    /\ Head(events).kind = "errorOccurred"
    /\ label' = [kind |-> "text", id |-> Head(events).id]
    /\ save_enabled' = FALSE
    /\ delivered' = Append(delivered, Head(events))
    /\ events' = Tail(events)
    /\ UNCHANGED <<inputVars, mailbox, workerLocal, submitterVars, history>>

----------------------------------------------------------------------------
Next ==
    \/ Startup
    \/ \E s \in Submitters : request_new_qr_code(s)
    \/ \E s \in Submitters : set_parameters(s)
    \/ run
    \/ draw_qr_code
    \/ print_error_message

Spec == Init /\ [][Next]_vars

\* The GUI thread alone with the version spin box as its input: every change
\* of the box runs request_new_qr_code, hence set_parameters.
VersionNext ==
    \/ Startup
    \/ \E v \in VersionMin..VersionMax : version_box_valueChanged(v)
    \/ set_parameters(GUI)

VersionSpec == Init /\ [][VersionNext]_vars

\* Every thread that can take a step eventually does; only the input events
\* that start a new request_new_qr_code are left to the user.
FairSpec ==
    /\ Spec
    /\ WF_vars(Startup)
    /\ \A s \in Submitters : WF_vars(set_parameters(s))
    /\ WF_vars(run)
    /\ WF_vars(draw_qr_code)
    /\ WF_vars(print_error_message)

----------------------------------------------------------------------------
\* Vocabulary of the properties.

\* The signal an iteration that consumed a request with this ok-ness emits.
Outcome(ok) == IF ok THEN "resultReady" ELSE "errorOccurred"

\* The worker is inside get_parameters (between its call and its return).
InGet == pcW \in {"acquire", "lock", "take", "unlock"}

\* Iterations of the loop that have ended by reaching the next
\* get_parameters call.
Completed == IF InGet THEN Len(taken) ELSE Len(taken) - 1

\* No set_parameters call is pending or in progress.
Quiescent == \A s \in Submitters : pcS[s] = "idle"

----------------------------------------------------------------------------
\* C1: every return of get_parameters yields a request that was submitted
\* and not consumed before; it never returns None.
C1_TakeNeverEmpty ==
    \A i \in 1..Len(taken) :
        /\ taken[i].id \in 1..written
        /\ \A j \in 1..(i - 1) : taken[j].id # taken[i].id

\* C2: latest-wins.  If N writes completed before the worker first removed
\* anything from the slot, the first get_parameters returns request N; no
\* request older than N is ever passed to the encoder; at most one signal is
\* emitted for N, and once that iteration has ended exactly one has been,
\* carrying N's outcome, as the first signal of all.
C2_LatestWins ==
    Len(taken) >= 1 =>
        LET n == taken[1].written IN
        /\ n >= 1
        /\ taken[1].id = n
        /\ \A k \in 1..Len(encoded) : encoded[k] >= n
        /\ Cardinality({k \in 1..Len(emitted) : emitted[k].id = n}) <= 1
        /\ (Completed >= 1 =>
                /\ Len(emitted) >= 1
                /\ emitted[1] = Signal(Outcome(taken[1].ok), n))

C2_Witness ==
    /\ Len(taken) >= 1
    /\ taken[1].written >= 3
    /\ Completed >= 1
    /\ Len(emitted) = 1

\* C3: once submissions have stopped, the last submitted request is
\* eventually consumed and its outcome is the last signal emitted.
LastResultIsFreshest ==
    /\ written >= 1
    /\ emitted # <<>>
    /\ Last(emitted).id = written

C3_FreshestEventually == <>[](Quiescent => LastResultIsFreshest)

\* C4: if set_parameters is called exactly once (the startup call) the
\* worker eventually emits exactly one signal, for that request, and from
\* then on stays blocked in semaphore.acquire.
BlockedAfterOne ==
    /\ Len(emitted) = 1
    /\ emitted[1].id = 1
    /\ pcW = "acquire"
    /\ semaphore = 0

C4_NoStarvation == []((calls <= 1)) => <>[]BlockedAfterOne

C4_Witness ==
    /\ calls = 1
    /\ Quiescent
    /\ BlockedAfterOne
    /\ Len(taken) = 1

\* C5: after a validation error has been signalled, a request waiting in
\* the slot is eventually taken by the worker (the loop goes on serving).
ErrorLast == emitted # <<>> /\ Last(emitted).kind = "errorOccurred"

C5_ErrorIsolation == (ErrorLast /\ parameters # None) ~> (parameters = None)

\* C6: whenever the worker is back in get_parameters, every earlier return
\* of get_parameters has been followed by exactly one signal, for the
\* request consumed, of the kind its encoding outcome calls for; an
\* iteration that consumed a request never ends without one.
C6_ExactlyOnce ==
    /\ Len(emitted) = Completed
    /\ \A i \in 1..Completed :
           emitted[i] = Signal(Outcome(taken[i].ok), taken[i].id)
    /\ (pcW = "dead" => Last(taken).id = 0)

C6_Witness ==
    /\ pcW = "acquire"
    /\ Len(emitted) >= 2
    /\ \E i, j \in 1..Len(emitted) :
           /\ emitted[i].kind = "resultReady"
           /\ emitted[j].kind = "errorOccurred"

\* C7: the requests whose results are delivered form a subsequence of the
\* submitted requests in submission order: ids of delivered (and of
\* emitted) signals are ids of written requests and strictly increase.
Increasing(s) ==
    \A i \in 1..Len(s) :
        /\ s[i].id \in 1..written
        /\ \A j \in 1..(i - 1) : s[j].id < s[i].id

C7_ResultOrder == Increasing(emitted) /\ Increasing(delivered)

C7_Witness ==
    /\ Len(delivered) = 2
    /\ delivered[1].id = 1
    /\ delivered[2].id = 3

\* C8: a started set_parameters call completes; the worker holds the mutex
\* only for the slot read/write, never while it waits on the semaphore,
\* runs the encoder or emits.
MutexOnlyAroundSlot == (mutex = Worker) <=> (pcW \in {"take", "unlock"})

C8_SubmitterNeverStuck ==
    /\ [] MutexOnlyAroundSlot
    /\ \A s \in Submitters :
           (pcS[s] \notin {"idle", "startup"}) ~> (pcS[s] = "idle")

C8_Witness ==
    \E s \in Submitters : pcS[s] = "lock" /\ mutex = Worker

\* C9: an error other than ValueError is never turned into an
\* errorOccurred signal: it ends the worker loop, and after that no
\* further signal is emitted.
C9_UnknownErrorFatal ==
    /\ (exc = "TypeError" => pcW = "dead")
    /\ (pcW = "dead" => exc = "TypeError" /\ Len(emitted) = Len(taken) - 1)
    /\ \A k \in 1..Len(emitted) :
           emitted[k].kind = "errorOccurred" =>
               \E i \in 1..Len(taken) :
                   taken[i].id = emitted[k].id /\ taken[i].id # 0
                   /\ ~taken[i].ok

C9_Witness ==
    /\ pcW = "dead"
    /\ exc = "TypeError"
    /\ written > Last(emitted).id

\* C10: after any delivery, the save action is enabled exactly if the last
\* delivered signal was resultReady; the label shows that image, or else
\* the error message last delivered.
C10_SaveFollowsLastResult ==
    delivered # <<>> =>
        /\ save_enabled <=> (Last(delivered).kind = "resultReady")
        /\ label = [kind |-> IF Last(delivered).kind = "resultReady"
                               THEN "pixmap" ELSE "text",
                    id |-> Last(delivered).id]

C10_Witness ==
    /\ Len(delivered) >= 3
    /\ delivered[1].kind = "errorOccurred"
    /\ delivered[2].kind = "resultReady"
    /\ delivered[3].kind = "errorOccurred"
    /\ ~save_enabled

\* C11: get_version maps the spin box value 0 to None and every value v in
\* 1..40 to v, so the version element of every tuple passed to
\* set_parameters is None or an integer in 1..40.
C11_VersionField ==
    calls >= 1 =>
        /\ version_box \in VersionMin..VersionMax
        /\ (version_box = 0 => version = VersionNone)
        /\ (version_box \in 1..40 =>
                ~version.none /\ version.value = version_box)
        /\ (version.none \/ version.value \in 1..40)

C11_Witness ==
    /\ version_box = 40
    /\ version = VersionInt(40)
    /\ written >= 2
    /\ parameters.id = written
    /\ pcS[GUI] = "idle"

\* C12: a set_parameters call releases the semaphore if and only if the
\* slot was empty immediately before its write.
WriteDecided(k) ==
    \/ k < Len(writes)
    \/ \A s \in Submitters : pcS[s] \notin {"check", "release"}

C12_ReleaseIffEmpty ==
    \A k \in 1..Len(writes) :
        WriteDecided(k) => (writes[k].released <=> writes[k].wasEmpty)

\* C13: requests written while the worker is encoding request R, i.e. the
\* ids in coalesced.
Max(S) == CHOOSE m \in S : \A k \in S : k <= m

TakenIds == {taken[j].id : j \in 1..Len(taken)}

Overwritten(k) == k + 1 <= Len(writes) /\ ~writes[k + 1].wasEmpty

\* The step in which get_parameters returns.
Returns == pcW = "unlock" /\ pcW' = "unpack"

\* R is still the request in flight, or its own signal was the last emitted.
RunsToCompletion ==
    /\ Last(taken).id # 0
    /\ pcW # "dead"
    /\ (~InGet => cur.id = Last(taken).id)
    /\ (InGet => /\ Len(emitted) = Len(taken)
                 /\ Last(emitted) =
                        Signal(Outcome(Last(taken).ok), Last(taken).id))

\* C13 as stated: R's own signal is emitted unchanged and, of the requests
\* written during R's encoding, exactly the newest is consumed by the next
\* get_parameters.
C13_CoalesceExactlyOne ==
    /\ [](coalesced # {} => RunsToCompletion)
    /\ [][(Returns /\ coalesced # {}) =>
              Last(taken').id = Max(coalesced)]_vars

\* C13 as amended: R's own signal is emitted unchanged; the next
\* get_parameters returns a request, which is the newest of those written
\* during R's encoding unless a still newer one was written before that
\* return; every other request written during R's encoding has been
\* overwritten in the slot (and so is never consumed, C14).
C13_CoalesceNewest ==
    /\ [](coalesced # {} => RunsToCompletion)
    /\ [](\A j \in 1..Len(taken) : taken[j].id \notin coalesced)
    /\ [][(Returns /\ coalesced # {}) =>
              LET t == Last(taken') IN
              /\ t.id # 0
              /\ t.id >= Max(coalesced)
              /\ (t.written = Max(coalesced) => t.id = Max(coalesced))
              /\ \A k \in coalesced : k = t.id \/ Overwritten(k)]_vars

C13_Witness ==
    /\ pcW = "unlock"
    /\ coalesced = {2, 3}
    /\ Len(taken) = 1
    /\ Len(emitted) = 1
    /\ cur.id = 3

\* C14: no request is consumed more than once (one encoder call and one
\* signal at most per set_parameters call), and a request overwritten
\* before it was consumed is never encoded and never signalled.
NoRepeat(ids) ==
    \A i, j \in 1..Len(ids) : (i # j /\ ids[i] # 0) => ids[i] # ids[j]

C14_ConsumedAtMostOnce ==
    /\ NoRepeat([j \in 1..Len(taken) |-> taken[j].id])
    /\ NoRepeat(encoded)
    /\ NoRepeat([j \in 1..Len(emitted) |-> emitted[j].id])
    /\ \A k \in 1..Len(writes) :
           Overwritten(k) =>
               /\ k \notin TakenIds
               /\ \A j \in 1..Len(encoded) : encoded[j] # k
               /\ \A j \in 1..Len(emitted) : emitted[j].id # k

C14_Witness ==
    /\ Len(emitted) = 2
    /\ Overwritten(2)
    /\ emitted[1].id = 1
    /\ emitted[2].id = 3
    /\ InGet

\* C15: the semaphore's available count is 0 or 1 in every state, whatever
\* the number of threads inside set_parameters.
C15_SemaphoreBinary == semaphore \in {0, 1}

C15_Witness ==
    /\ semaphore = 1
    /\ written >= 2
    /\ \E s, t \in Submitters :
           /\ s # t
           /\ pcS[s] = "check"
           /\ pcS[t] = "lock"

\* C16: no lost wake-up.  When the worker is at semaphore.acquire with the
\* count at 0 and no thread is past the lock of set_parameters, the slot is
\* empty.
NoSetInProgress == \A s \in Submitters : pcS[s] \in {"idle", "startup", "lock"}

C16_NoLostWakeup ==
    (pcW = "acquire" /\ semaphore = 0 /\ NoSetInProgress) =>
        parameters = None

C16_Witness ==
    /\ pcW = "acquire"
    /\ semaphore = 0
    /\ Quiescent
    /\ parameters = None
    /\ written >= 2
    /\ Len(taken) >= 2
    /\ \A j \in 1..Len(taken) : taken[j].id # 0

====
